---- MODULE Spec2Model ----
(***************************************************************************)
(* remote-educator-hub: teachers manage classes ("turmas") and assignments *)
(* ("atividades") through a hosted store with row-level security.          *)
(*                                                                         *)
(* The module models                                                       *)
(*   - the storage layer (tables, row-level policies, foreign keys,        *)
(*     ON DELETE CASCADE, the new-user trigger) as pure operators on a     *)
(*     database value `db`;                                                *)
(*   - the AuthForm component (sign-in / sign-up);                         *)
(*   - the Dashboard with its two list-form controllers (TurmasManager,    *)
(*     AtividadesManager), every async handler split at its awaits.        *)
(*                                                                         *)
(* Five specifications share the variables:                                *)
(*   SpecStore        arbitrary store requests under the identities A and  *)
(*                    B                                                    *)
(*   SpecAuth         the anonymous view (AuthForm) against the identity   *)
(*                    service, the Dashboard's mount and its sign-out      *)
(*   Spec             teacher A signed in, using the Dashboard and waiting *)
(*                    for every answer; store requests may fail in transit *)
(*   SpecOverlap      teacher A on a loaded tab, starting handlers while   *)
(*                    earlier ones are still awaiting their answers        *)
(*   SpecOverlapFail  as SpecOverlap from the Turmas tab, with store       *)
(*                    requests that may fail in transit                    *)
(***************************************************************************)
EXTENDS Integers, Sequences, FiniteSets, TLC

VARIABLES
    db,        \* the remote store: auth.users, profiles, turmas, atividades
    user,      \* useAuth().user: the signed-in user's id, or NULL
    lastReq,   \* SpecStore: the latest store request and what it returned / touched
    authForm,  \* AuthForm component state (loading, formData)
    dash,      \* Dashboard component state (profile, stats, activeTab, loading)
    tm,        \* TurmasManager component state
    am,        \* AtividadesManager component state
    tasks,     \* running async handler invocations, in the order they were started
    failures,  \* store requests that have failed in transit so far
    usr,       \* the user: waits for every answer (patient), or starts up to `left`
               \* more handlers without waiting; creates up to `turmas` more classes
               \* and `atividades` more assignments
    ev         \* the toast raised by the latest step (AuthForm: and the handler that ran)

vars == <<db, user, lastReq, authForm, dash, tm, am, tasks, failures, usr, ev>>

----------------------------------------------------------------------------
(* Bounds *)

\* classes the user creates in one run (insert requests submitted)
MaxTurmas == 1
\* assignments the user creates in one run
MaxAtividades == 1
\* handlers an impatient user starts without waiting for the answers (SpecOverlap)
MaxClicks == 2
\* store requests that may fail in transit (network failure) in one run
MaxFailures == 1
\* ids the turmas / atividades tables may hand out in SpecStore
MaxStoreTurmas == 2
MaxStoreAtividades == 2

----------------------------------------------------------------------------
(* Values *)

\* SQL NULL / JavaScript null
NULL == "NULL"
\* the empty string '' of a blank turma_id form field (ids are numbers here)
EmptyId == 0

Teachers == {"A", "B"}
Names == {"a", "b"}
Descriptions == {NULL, "d"}
Statuses == {"pending", "in_progress", "completed"}
Emails == {"ana@x", "bia@x"}
Passwords == {"p", "q"}
FullNames == {"Ana", "Bia"}

----------------------------------------------------------------------------
(* Storage layer                                                            *)
(* db = [users, profiles, turmas, atividades, nextTurma, nextAtividade].    *)
(* gen_random_uuid() is a fresh id; created_at = now() grows with every     *)
(* insert, so one per-table counter supplies both.                          *)

\* USING / WITH CHECK (auth.uid() = teacher_id) on turmas
TurmasPolicy(uid, row) == uid = row.teacher_id

\* USING / WITH CHECK (auth.uid() = teacher_id) on atividades
AtividadesPolicy(uid, row) == uid = row.teacher_id

UserIds(d) == {u.id : u \in d.users}

\* column constraints of public.turmas: NOT NULL name, teacher_id REFERENCES auth.users
TurmaRowValid(d, row) ==
    /\ row.name # NULL
    /\ row.teacher_id \in UserIds(d)

\* column constraints of public.atividades: NOT NULL title, the status CHECK,
\* teacher_id REFERENCES auth.users, turma_id REFERENCES turmas(id).  Foreign-key
\* checks read the referenced table with row security bypassed.
AtividadeRowValid(d, row) ==
    /\ row.title # NULL
    /\ row.status \in Statuses
    /\ row.teacher_id \in UserIds(d)
    /\ \E t \in d.turmas : t.id = row.turma_id

Failed(d) == [error |-> TRUE, db |-> d, rows |-> {}, old |-> {}]

\* INSERT INTO turmas under identity uid; data = [name, description, teacher_id]
InsertTurma(uid, data, d) ==
    LET new == [id |-> d.nextTurma, teacher_id |-> data.teacher_id,
                name |-> data.name, description |-> data.description,
                created_at |-> d.nextTurma]
    IN  IF TurmaRowValid(d, new) /\ TurmasPolicy(uid, new)
        THEN [error |-> FALSE,
              db |-> [d EXCEPT !.turmas = @ \cup {new}, !.nextTurma = @ + 1],
              rows |-> {new}, old |-> {}]
        ELSE Failed(d)

\* UPDATE turmas SET data WHERE id = id, under identity uid.  The UPDATE policy has
\* only USING, which then also serves as WITH CHECK on the new row.
UpdateTurma(uid, id, data, d) ==
    LET hit == {r \in d.turmas : r.id = id /\ TurmasPolicy(uid, r)}
        upd(r) == [r EXCEPT !.teacher_id = data.teacher_id, !.name = data.name,
                            !.description = data.description]
        new == {upd(r) : r \in hit}
    IN  IF \A n \in new : TurmaRowValid(d, n) /\ TurmasPolicy(uid, n)
        THEN [error |-> FALSE,
              db |-> [d EXCEPT !.turmas = (@ \ hit) \cup new],
              rows |-> new, old |-> hit]
        ELSE Failed(d)

\* (mutant) the cascade removes only the assignments the caller's policy lets it see
DeleteTurmaCascadeUnderPolicy(uid, id, d) ==
    LET hit == {r \in d.turmas : r.id = id /\ TurmasPolicy(uid, r)}
        gone == {a \in d.atividades :
                    AtividadesPolicy(uid, a) /\ \E r \in hit : a.turma_id = r.id}
    IN  [error |-> FALSE,
         db |-> [d EXCEPT !.turmas = @ \ hit, !.atividades = @ \ gone],
         rows |-> {}, old |-> hit \cup gone]

\* DELETE FROM turmas WHERE id = id, under identity uid; atividades.turma_id is
\* ON DELETE CASCADE, and the cascade runs with row security bypassed.
DeleteTurma(uid, id, d) ==
    LET hit == {r \in d.turmas : r.id = id /\ TurmasPolicy(uid, r)}
        gone == {a \in d.atividades : \E r \in hit : a.turma_id = r.id}
    IN  [error |-> FALSE,
         db |-> [d EXCEPT !.turmas = @ \ hit, !.atividades = @ \ gone],
         rows |-> {}, old |-> hit \cup gone]

\* INSERT INTO atividades; data = [title, description, status, turma_id, teacher_id]
InsertAtividade(uid, data, d) ==
    LET new == [id |-> d.nextAtividade, turma_id |-> data.turma_id,
                teacher_id |-> data.teacher_id, title |-> data.title,
                description |-> data.description, status |-> data.status,
                created_at |-> d.nextAtividade]
    IN  IF AtividadeRowValid(d, new) /\ AtividadesPolicy(uid, new)
        THEN [error |-> FALSE,
              db |-> [d EXCEPT !.atividades = @ \cup {new}, !.nextAtividade = @ + 1],
              rows |-> {new}, old |-> {}]
        ELSE Failed(d)

\* UPDATE atividades SET data WHERE id = id
UpdateAtividade(uid, id, data, d) ==
    LET hit == {r \in d.atividades : r.id = id /\ AtividadesPolicy(uid, r)}
        upd(r) == [r EXCEPT !.turma_id = data.turma_id, !.teacher_id = data.teacher_id,
                            !.title = data.title, !.description = data.description,
                            !.status = data.status]
        new == {upd(r) : r \in hit}
    IN  IF \A n \in new : AtividadeRowValid(d, n) /\ AtividadesPolicy(uid, n)
        THEN [error |-> FALSE,
              db |-> [d EXCEPT !.atividades = (@ \ hit) \cup new],
              rows |-> new, old |-> hit]
        ELSE Failed(d)

\* DELETE FROM atividades WHERE id = id
DeleteAtividade(uid, id, d) ==
    LET hit == {r \in d.atividades : r.id = id /\ AtividadesPolicy(uid, r)}
    IN  [error |-> FALSE,
         db |-> [d EXCEPT !.atividades = @ \ hit],
         rows |-> {}, old |-> hit]

\* SELECT ... FROM turmas WHERE teacher_id = teacher (the client's .eq filter),
\* restricted by the SELECT policy
SelectTurmas(uid, teacher, d) ==
    {r \in d.turmas : TurmasPolicy(uid, r) /\ r.teacher_id = teacher}

\* SELECT ... FROM atividades WHERE teacher_id = teacher
SelectAtividades(uid, teacher, d) ==
    {r \in d.atividades : AtividadesPolicy(uid, r) /\ r.teacher_id = teacher}

\* ORDER BY created_at DESC
RECURSIVE OrderDesc(_)
OrderDesc(rows) ==
    IF rows = {} THEN <<>>
    ELSE LET top == CHOOSE r \in rows : \A q \in rows : q.created_at <= r.created_at
         IN  <<top>> \o OrderDesc(rows \ {top})

----------------------------------------------------------------------------
(* Identity service and the new-user trigger *)

\* (mutant) the trigger reads a metadata key that is never set
HandleNewUserDefaultName(new, d) ==
    [d EXCEPT !.profiles = @ \cup {[user_id |-> new.id, full_name |-> "Professor"]}]

\* handle_new_user(): AFTER INSERT ON auth.users, SECURITY DEFINER
HandleNewUser(new, d) ==
    LET full == IF new.raw_user_meta_data.full_name = NULL
                THEN "Professor" ELSE new.raw_user_meta_data.full_name
    IN  [d EXCEPT !.profiles = @ \cup {[user_id |-> new.id, full_name |-> full]}]

\* INSERT INTO auth.users (by the identity service), firing on_auth_user_created
CreateUser(new, d) == HandleNewUser(new, [d EXCEPT !.users = @ \cup {new}])

----------------------------------------------------------------------------
(* Initial values shared by the specifications *)

AuthUser(id, full) ==
    [id |-> id, email |-> id, password |-> "p",
     raw_user_meta_data |-> [full_name |-> full]]

\* an empty store in which the teachers A and B have signed up
EmptyDb ==
    LET d0 == [users |-> {}, profiles |-> {}, turmas |-> {}, atividades |-> {},
               nextTurma |-> 1, nextAtividade |-> 1]
    IN  CreateUser(AuthUser("B", "b"), CreateUser(AuthUser("A", "a"), d0))

NoReq ==
    [uid |-> NULL, verb |-> "none", table |-> "none", error |-> FALSE, owners |-> {},
     affected |-> 0]

NoEv == [op |-> "none", toast |-> "none"]

\* the user who starts a handler only when no request is outstanding
Patient ==
    [patient |-> TRUE, left |-> 0, turmas |-> MaxTurmas, atividades |-> MaxAtividades]

\* AuthForm: useState initial values
AuthFormInit ==
    [loading |-> FALSE,
     formData |-> [email |-> "", password |-> "", fullName |-> "", confirmPassword |-> ""]]

\* Dashboard: useState initial values
DashInit ==
    [profile |-> <<>>,
     stats |-> [totalTurmas |-> 0, totalAtividades |-> 0, atividadesPendentes |-> 0],
     activeTab |-> "overview",
     loading |-> TRUE]

\* TurmasManager: useState initial values
TurmasManagerInit ==
    [turmas |-> <<>>, loading |-> TRUE, isDialogOpen |-> FALSE, editingTurma |-> <<>>,
     formData |-> [name |-> "", description |-> ""]]

\* AtividadesManager: useState initial values
AtividadesManagerInit ==
    [atividades |-> <<>>, turmas |-> <<>>, loading |-> TRUE, isDialogOpen |-> FALSE,
     editingAtividade |-> <<>>,
     formData |-> [title |-> "", description |-> "", status |-> "pending",
                   turma_id |-> EmptyId]]

----------------------------------------------------------------------------
(* SpecStore: the storage layer under arbitrary requests.  Any signed-in user  *)
(* may send any request with their own token; lastReq keeps who asked and the  *)
(* owners of every row the request returned, changed, removed or produced.     *)

Owners(rows) == {r.teacher_id : r \in rows}

Answer(uid, verb, table, res) ==
    [uid |-> uid, verb |-> verb, table |-> table, error |-> res.error,
     owners |-> Owners(res.rows \cup res.old),
     affected |-> Cardinality(res.rows \cup res.old)]

ClientUnchanged == UNCHANGED <<user, authForm, dash, tm, am, tasks, failures, usr, ev>>

\* the status values SpecStore's requests carry
StoreStatuses == {"pending", "completed"}

ReqInsertTurma(uid) ==
    \E teacher \in Teachers :
        LET res == InsertTurma(uid, [name |-> "a", description |-> NULL,
                                     teacher_id |-> teacher], db)
        IN  /\ db.nextTurma <= MaxStoreTurmas
            /\ db' = res.db
            /\ lastReq' = Answer(uid, "insert", "turmas", res)
            /\ ClientUnchanged

ReqUpdateTurma(uid) ==
    \E id \in 1..MaxStoreTurmas, teacher \in Teachers, name \in Names :
        LET res == UpdateTurma(uid, id, [name |-> name, description |-> NULL,
                                         teacher_id |-> teacher], db)
        IN  /\ db' = res.db
            /\ lastReq' = Answer(uid, "update", "turmas", res)
            /\ ClientUnchanged

ReqDeleteTurma(uid) ==
    \E id \in 1..MaxStoreTurmas :
        LET res == DeleteTurma(uid, id, db)
        IN  /\ db' = res.db
            /\ lastReq' = Answer(uid, "delete", "turmas", res)
            /\ ClientUnchanged

ReqInsertAtividade(uid) ==
    \E turma \in 1..MaxStoreTurmas, teacher \in Teachers, status \in StoreStatuses :
        LET res == InsertAtividade(uid, [title |-> "a", description |-> NULL,
                                         status |-> status, turma_id |-> turma,
                                         teacher_id |-> teacher], db)
        IN  /\ db.nextAtividade <= MaxStoreAtividades
            /\ db' = res.db
            /\ lastReq' = Answer(uid, "insert", "atividades", res)
            /\ ClientUnchanged

ReqUpdateAtividade(uid) ==
    \E id \in 1..MaxStoreAtividades, turma \in 1..MaxStoreTurmas, teacher \in Teachers,
       status \in StoreStatuses :
        LET res == UpdateAtividade(uid, id, [title |-> "a", description |-> NULL,
                                             status |-> status, turma_id |-> turma,
                                             teacher_id |-> teacher], db)
        IN  /\ db' = res.db
            /\ lastReq' = Answer(uid, "update", "atividades", res)
            /\ ClientUnchanged

ReqDeleteAtividade(uid) ==
    \E id \in 1..MaxStoreAtividades :
        LET res == DeleteAtividade(uid, id, db)
        IN  /\ db' = res.db
            /\ lastReq' = Answer(uid, "delete", "atividades", res)
            /\ ClientUnchanged

\* select and count read the same rows; count returns only their number
ReqSelectTurmas(uid) ==
    /\ lastReq' = [uid |-> uid, verb |-> "select", table |-> "turmas", error |-> FALSE,
                   owners |-> Owners({r \in db.turmas : TurmasPolicy(uid, r)}),
                   affected |-> 0]
    /\ UNCHANGED db
    /\ ClientUnchanged

ReqSelectAtividades(uid) ==
    /\ lastReq' = [uid |-> uid, verb |-> "select", table |-> "atividades", error |-> FALSE,
                   owners |-> Owners({r \in db.atividades : AtividadesPolicy(uid, r)}),
                   affected |-> 0]
    /\ UNCHANGED db
    /\ ClientUnchanged

InitStore ==
    /\ db = EmptyDb
    /\ user = NULL
    /\ lastReq = NoReq
    /\ authForm = AuthFormInit
    /\ dash = DashInit
    /\ tm = TurmasManagerInit
    /\ am = AtividadesManagerInit
    /\ tasks = <<>>
    /\ failures = 0
    /\ usr = Patient
    /\ ev = NoEv

NextStore ==
    \E uid \in Teachers :
        \/ ReqInsertTurma(uid)
        \/ ReqUpdateTurma(uid)
        \/ ReqDeleteTurma(uid)
        \/ ReqInsertAtividade(uid)
        \/ ReqUpdateAtividade(uid)
        \/ ReqDeleteAtividade(uid)
        \/ ReqSelectTurmas(uid)
        \/ ReqSelectAtividades(uid)

SpecStore == InitStore /\ [][NextStore]_vars

----------------------------------------------------------------------------
(* Async handlers.  A task is one running invocation of an async handler,    *)
(* stopped at an await: its request is either on its way ("sent") or         *)
(* answered and waiting for the event loop ("replied").                      *)

\* History carried by a task for the properties below; no guard and no
\* assignment to a program variable reads it.  It names the mutation on whose
\* behalf the task runs: the request, the row it addressed or created, the status
\* change of an assignment edit, and the counts on display when the user started it.
\* For a load it also holds the row list its manager held when the load started.
NoHist ==
    [verb |-> "none", table |-> "none", id |-> EmptyId, from |-> "none", to |-> "none",
     before |-> [totalTurmas |-> 0, totalAtividades |-> 0, atividadesPendentes |-> 0],
     shown |-> <<>>]

Task(op, step, req, acc, orphan) ==
    [op |-> op, step |-> step, phase |-> "sent", orphan |-> orphan,
     req |-> req, res |-> [error |-> FALSE], acc |-> acc, hist |-> NoHist]

OnBehalfOf(task, hist) == [task EXCEPT !.hist = hist]

\* a load started while its manager holds the row list `list`
Showing(task, list) ==
    [task EXCEPT !.hist.shown = IF task.orphan THEN <<>> ELSE list]

Remove(seq, i) == SubSeq(seq, 1, i - 1) \o SubSeq(seq, i + 1, Len(seq))

Ev(op, toast) == [op |-> op, toast |-> toast]

\* a step of the Dashboard and the toast it raised ("none": no toast)
Toast(msg) == [op |-> "none", toast |-> msg]

----------------------------------------------------------------------------
(* Session provider (useAuth) and identity service *)

\* useAuth().signUp(email, password, fullName): the display name travels as the
\* user metadata field full_name
SignUpRequest(email, password, fullName) ==
    [verb |-> "signUp", email |-> email, password |-> password,
     data |-> [full_name |-> fullName]]

\* useAuth().signIn(email, password)
SignInRequest(email, password) ==
    [verb |-> "signIn", email |-> email, password |-> password]

\* the identity service answers a sign-up: a duplicate email is an AuthError, and
\* any request may also fail for another reason (weak password, network)
AuthServiceSignUp(i) ==
    /\ i \in 1..Len(tasks)
    /\ tasks[i].op = "signUp" /\ tasks[i].phase = "sent"
    /\ LET req == tasks[i].req
           new == [id |-> req.email, email |-> req.email, password |-> req.password,
                   raw_user_meta_data |-> req.data]
       IN  \/ /\ \A u \in db.users : u.email # req.email
              /\ db' = CreateUser(new, db)
              /\ tasks' = [tasks EXCEPT ![i].phase = "replied", ![i].res = [error |-> FALSE]]
           \/ /\ db' = db
              /\ tasks' = [tasks EXCEPT ![i].phase = "replied", ![i].res = [error |-> TRUE]]
    /\ ev' = Ev("authService", "none")
    /\ UNCHANGED <<user, lastReq, authForm, dash, tm, am, failures, usr>>

\* the Dashboard mounts for user uid: its useEffect starts loadProfile() and
\* loadStats(), each running up to its first await
DashboardMount(uid) ==
    <<Task("loadProfile", 1, [verb |-> "select", table |-> "profiles", user_id |-> uid],
           <<>>, FALSE),
      Task("loadStats", 1, [verb |-> "count", table |-> "turmas", teacher |-> uid,
                            status |-> NULL],
           [turmasCount |-> 0, atividadesCount |-> 0], FALSE)>>

\* the identity service answers a sign-in; on success the session changes and
\* Index renders the Dashboard in place of the AuthForm
AuthServiceSignIn(i) ==
    /\ i \in 1..Len(tasks)
    /\ tasks[i].op = "signIn" /\ tasks[i].phase = "sent"
    /\ LET req == tasks[i].req
           ok == \E u \in db.users : u.email = req.email /\ u.password = req.password
       IN  \/ /\ ok
              /\ user' = req.email
              /\ dash' = DashInit
              /\ tasks' = [tasks EXCEPT ![i].phase = "replied", ![i].orphan = TRUE,
                                        ![i].res = [error |-> FALSE]]
                          \o DashboardMount(req.email)
           \/ /\ user' = user
              /\ dash' = dash
              /\ tasks' = [tasks EXCEPT ![i].phase = "replied", ![i].res = [error |-> TRUE]]
    /\ ev' = Ev("authService", "none")
    /\ UNCHANGED <<db, lastReq, authForm, tm, am, failures, usr>>

\* useAuth().signOut() -> Result<void, AuthError>: the identity service answers.
\* On success the session ends and Index renders a fresh AuthForm in place of
\* the Dashboard; on failure the result carries the error and the session stays.
AuthServiceSignOut(i) ==
    /\ i \in 1..Len(tasks)
    /\ tasks[i].op = "signOut" /\ tasks[i].phase = "sent"
    /\ \/ /\ user' = NULL
          /\ authForm' = AuthFormInit
          /\ tasks' = [tasks EXCEPT ![i].phase = "replied", ![i].orphan = TRUE,
                                    ![i].res = [error |-> FALSE]]
       \/ /\ user' = user
          /\ authForm' = authForm
          /\ tasks' = [tasks EXCEPT ![i].phase = "replied", ![i].res = [error |-> TRUE]]
    /\ ev' = Ev("authService", "none")
    /\ UNCHANGED <<db, lastReq, dash, tm, am, failures, usr>>

----------------------------------------------------------------------------
(* AuthForm *)

AuthFormShown == user = NULL

\* handleInputChange: one field of formData takes the typed value
AuthInputChange ==
    /\ AuthFormShown
    /\ \/ \E v \in Emails : authForm' = [authForm EXCEPT !.formData.email = v]
       \/ \E v \in Passwords : authForm' = [authForm EXCEPT !.formData.password = v]
       \/ \E v \in Passwords : authForm' = [authForm EXCEPT !.formData.confirmPassword = v]
       \/ \E v \in FullNames : authForm' = [authForm EXCEPT !.formData.fullName = v]
    /\ authForm' # authForm
    /\ ev' = Ev("handleInputChange", "none")
    /\ UNCHANGED <<db, user, lastReq, dash, tm, am, tasks, failures, usr>>

\* the sign-up form's inputs are all `required` and its button is disabled={loading}
SignUpSubmittable ==
    /\ AuthFormShown
    /\ ~authForm.loading
    /\ authForm.formData.fullName # ""
    /\ authForm.formData.email # ""
    /\ authForm.formData.password # ""
    /\ authForm.formData.confirmPassword # ""

\* handleSignUp up to its await
\* (mutant) the confirmation check dropped
HandleSignUpNoCheck ==
    /\ SignUpSubmittable
    /\ authForm' = [authForm EXCEPT !.loading = TRUE]
    /\ tasks' = Append(tasks, Task("signUp", 1,
                    SignUpRequest(authForm.formData.email, authForm.formData.password,
                                  authForm.formData.fullName), <<>>, FALSE))
    /\ ev' = Ev("handleSignUp", "none")
    /\ UNCHANGED <<db, user, lastReq, dash, tm, am, failures, usr>>

HandleSignUp ==
    /\ SignUpSubmittable
    /\ IF authForm.formData.password # authForm.formData.confirmPassword
       THEN /\ authForm' = [authForm EXCEPT !.loading = FALSE]
            /\ tasks' = tasks
            /\ ev' = Ev("handleSignUp", "As senhas nao coincidem")
       ELSE /\ authForm' = [authForm EXCEPT !.loading = TRUE]
            /\ tasks' = Append(tasks, Task("signUp", 1,
                            SignUpRequest(authForm.formData.email,
                                          authForm.formData.password,
                                          authForm.formData.fullName), <<>>, FALSE))
            /\ ev' = Ev("handleSignUp", "none")
    /\ UNCHANGED <<db, user, lastReq, dash, tm, am, failures, usr>>

\* handleSignUp after its await
SignUpResolved(i) ==
    /\ i \in 1..Len(tasks)
    /\ tasks[i].op = "signUp" /\ tasks[i].phase = "replied"
    /\ tasks' = Remove(tasks, i)
    /\ authForm' = IF tasks[i].orphan THEN authForm ELSE [authForm EXCEPT !.loading = FALSE]
    /\ ev' = Ev("handleSignUp.await",
                IF tasks[i].res.error THEN "Erro no cadastro" ELSE "Cadastro realizado!")
    /\ UNCHANGED <<db, user, lastReq, dash, tm, am, failures, usr>>

\* the sign-in form: email and password are `required`, the button disabled={loading}
SignInSubmittable ==
    /\ AuthFormShown
    /\ ~authForm.loading
    /\ authForm.formData.email # ""
    /\ authForm.formData.password # ""

\* handleSignIn up to its await
HandleSignIn ==
    /\ SignInSubmittable
    /\ authForm' = [authForm EXCEPT !.loading = TRUE]
    /\ tasks' = Append(tasks, Task("signIn", 1,
                    SignInRequest(authForm.formData.email, authForm.formData.password),
                    <<>>, FALSE))
    /\ ev' = Ev("handleSignIn", "none")
    /\ UNCHANGED <<db, user, lastReq, dash, tm, am, failures, usr>>

\* handleSignIn after its await
SignInResolved(i) ==
    /\ i \in 1..Len(tasks)
    /\ tasks[i].op = "signIn" /\ tasks[i].phase = "replied"
    /\ tasks' = Remove(tasks, i)
    /\ authForm' = IF tasks[i].orphan THEN authForm ELSE [authForm EXCEPT !.loading = FALSE]
    /\ ev' = Ev("handleSignIn.await", IF tasks[i].res.error THEN "Erro no login" ELSE "none")
    /\ UNCHANGED <<db, user, lastReq, dash, tm, am, failures, usr>>


----------------------------------------------------------------------------
(* Resource store client: the requests the components send, and the store's  *)
(* answer to each.  Every request carries the signed-in user's token, so      *)
(* auth.uid() is `user`.                                                      *)

SelectTurmasReq ==
    [verb |-> "select", table |-> "turmas", columns |-> "*", teacher |-> user]
\* loadData's class query: select('id, name'), no order given
SelectTurmaNamesReq ==
    [verb |-> "select", table |-> "turmas", columns |-> "id, name", teacher |-> user]
SelectAtividadesReq == [verb |-> "select", table |-> "atividades", teacher |-> user]
SelectProfileReq == [verb |-> "select", table |-> "profiles", user_id |-> user]
CountReq(table, status) ==
    [verb |-> "count", table |-> table, teacher |-> user, status |-> status]
MutationReq(verb, table, id, data) ==
    [verb |-> verb, table |-> table, id |-> id, data |-> data]

\* select `*, turmas (name)`: the embedded class is read under the caller's policy
WithTurmaName(uid, a, d) ==
    LET vis == {t \in d.turmas : t.id = a.turma_id /\ TurmasPolicy(uid, t)}
    IN  [id |-> a.id, turma_id |-> a.turma_id, title |-> a.title,
         description |-> a.description, status |-> a.status,
         created_at |-> a.created_at,
         turmas |-> IF vis = {} THEN NULL ELSE (CHOOSE t \in vis : TRUE).name]

RECURSIVE MapSeq(_, _, _)
MapSeq(uid, rows, d) ==
    IF rows = <<>> THEN <<>>
    ELSE <<WithTurmaName(uid, Head(rows), d)>> \o MapSeq(uid, Tail(rows), d)

\* select('id, name') without ORDER BY: the rows come in the table's physical
\* order, taken here as the order of insertion
RECURSIVE IdName(_)
IdName(rows) ==
    IF rows = {} THEN <<>>
    ELSE LET low == CHOOSE r \in rows : \A q \in rows : r.id <= q.id
         IN  <<[id |-> low.id, name |-> low.name]>> \o IdName(rows \ {low})

\* the store's answer to request req under identity uid: [error, db, data]
StoreAnswer(uid, req, d) ==
    CASE req.verb = "select" /\ req.table = "turmas" /\ req.columns = "*" ->
            [error |-> FALSE, db |-> d,
             data |-> OrderDesc(SelectTurmas(uid, req.teacher, d))]
      [] req.verb = "select" /\ req.table = "turmas" /\ req.columns = "id, name" ->
            [error |-> FALSE, db |-> d,
             data |-> IdName(SelectTurmas(uid, req.teacher, d))]
      [] req.verb = "select" /\ req.table = "atividades" ->
            [error |-> FALSE, db |-> d,
             data |-> MapSeq(uid, OrderDesc(SelectAtividades(uid, req.teacher, d)), d)]
      [] req.verb = "select" /\ req.table = "profiles" ->
            LET hit == {q \in d.profiles : q.user_id = uid /\ q.user_id = req.user_id}
            IN  [error |-> Cardinality(hit) # 1, db |-> d,
                 data |-> IF Cardinality(hit) = 1 THEN <<CHOOSE q \in hit : TRUE>> ELSE <<>>]
      [] req.verb = "count" /\ req.table = "turmas" ->
            [error |-> FALSE, db |-> d,
             data |-> Cardinality(SelectTurmas(uid, req.teacher, d))]
      [] req.verb = "count" /\ req.table = "atividades" ->
            [error |-> FALSE, db |-> d,
             data |-> Cardinality({r \in SelectAtividades(uid, req.teacher, d) :
                                      req.status = NULL \/ r.status = req.status})]
      [] req.verb = "insert" /\ req.table = "turmas" ->
            LET r == InsertTurma(uid, req.data, d)
            IN  [error |-> r.error, db |-> r.db, data |-> 0]
      [] req.verb = "update" /\ req.table = "turmas" ->
            LET r == UpdateTurma(uid, req.id, req.data, d)
            IN  [error |-> r.error, db |-> r.db, data |-> 0]
      [] req.verb = "delete" /\ req.table = "turmas" ->
            LET r == DeleteTurma(uid, req.id, d)
            IN  [error |-> r.error, db |-> r.db, data |-> 0]
      [] req.verb = "insert" /\ req.table = "atividades" ->
            LET r == InsertAtividade(uid, req.data, d)
            IN  [error |-> r.error, db |-> r.db, data |-> 0]
      [] req.verb = "update" /\ req.table = "atividades" ->
            LET r == UpdateAtividade(uid, req.id, req.data, d)
            IN  [error |-> r.error, db |-> r.db, data |-> 0]
      [] req.verb = "delete" /\ req.table = "atividades" ->
            LET r == DeleteAtividade(uid, req.id, d)
            IN  [error |-> r.error, db |-> r.db, data |-> 0]

StoreVerbs == {"select", "count", "insert", "update", "delete"}

\* the { data, count, error } a request resolves to: a select carries the rows in
\* data, a count the number in count, and an error carries neither
Result(req, ans) ==
    CASE ans.error -> [error |-> TRUE]
      [] req.verb = "select" -> [error |-> FALSE, data |-> ans.data]
      [] req.verb = "count" -> [error |-> FALSE, count |-> ans.data]
      [] OTHER -> [error |-> FALSE]

\* the store handles the request of task i and answers it
ServerProcess(i) ==
    /\ i \in 1..Len(tasks)
    /\ tasks[i].phase = "sent"
    /\ tasks[i].req.verb \in StoreVerbs
    /\ LET req == tasks[i].req
           ans == StoreAnswer(user, req, db)
           made == IF req.table = "turmas" THEN db.nextTurma ELSE db.nextAtividade
       IN  /\ db' = ans.db
           /\ tasks' = [tasks EXCEPT ![i].phase = "replied",
                                     ![i].res = Result(req, ans),
                                     ![i].hist.id = IF req.verb = "insert" /\ ~ans.error
                                                    THEN made ELSE @]
    /\ ev' = Toast("none")
    /\ UNCHANGED <<user, lastReq, authForm, dash, tm, am, failures, usr>>

\* the request of task i fails on its way (network failure): the store stays as it
\* was and the client gets { data: null, count: null, error }
ServerFail(i) ==
    /\ i \in 1..Len(tasks)
    /\ tasks[i].phase = "sent"
    /\ tasks[i].req.verb \in StoreVerbs
    /\ failures < MaxFailures
    /\ failures' = failures + 1
    /\ tasks' = [tasks EXCEPT ![i].phase = "replied",
                              ![i].res = [error |-> TRUE]]
    /\ ev' = Toast("none")
    /\ UNCHANGED <<db, user, lastReq, authForm, dash, tm, am, usr>>

Replied(i, op, step) ==
    /\ i \in 1..Len(tasks)
    /\ tasks[i].op = op /\ tasks[i].step = step /\ tasks[i].phase = "replied"

\* the history of a mutation request started now
MutationHist(req, from, to) ==
    [verb |-> req.verb, table |-> req.table, id |-> req.id, from |-> from, to |-> to,
     before |-> dash.stats, shown |-> <<>>]

----------------------------------------------------------------------------
(* Dashboard *)

LoadProfileTask == Task("loadProfile", 1, SelectProfileReq, <<>>, FALSE)

\* loadStats up to its first await
LoadStatsTask ==
    Task("loadStats", 1, CountReq("turmas", NULL),
         [turmasCount |-> 0, atividadesCount |-> 0], FALSE)

\* loadProfile after its await
LoadProfileResolved(i) ==
    /\ Replied(i, "loadProfile", 1)
    /\ dash' = IF tasks[i].res.error THEN dash
               ELSE [dash EXCEPT !.profile = tasks[i].res.data]
    /\ tasks' = Remove(tasks, i)
    /\ ev' = Toast("none")
    /\ UNCHANGED <<db, user, lastReq, authForm, tm, am, failures, usr>>

\* `count || 0`: a failed count request carries count null
CountOrZero(res) == IF res.error THEN 0 ELSE res.count

\* loadStats keeping the count on display when a count request fails
LoadStatsResolvedKeepsCount(i) ==
    /\ i \in 1..Len(tasks)
    /\ tasks[i].op = "loadStats" /\ tasks[i].phase = "replied"
    /\ LET t == tasks[i]
       IN  CASE t.step = 1 ->
                  /\ tasks' = [tasks EXCEPT ![i].step = 2, ![i].phase = "sent",
                                  ![i].req = CountReq("atividades", NULL),
                                  ![i].acc.turmasCount =
                                      IF t.res.error THEN dash.stats.totalTurmas
                                      ELSE t.res.count]
                  /\ dash' = dash
             [] t.step = 2 ->
                  /\ tasks' = [tasks EXCEPT ![i].step = 3, ![i].phase = "sent",
                                  ![i].req = CountReq("atividades", "pending"),
                                  ![i].acc.atividadesCount =
                                      IF t.res.error THEN dash.stats.totalAtividades
                                      ELSE t.res.count]
                  /\ dash' = dash
             [] t.step = 3 ->
                  /\ tasks' = Remove(tasks, i)
                  /\ dash' = [dash EXCEPT
                                !.stats = [totalTurmas |-> t.acc.turmasCount,
                                           totalAtividades |-> t.acc.atividadesCount,
                                           atividadesPendentes |-> CountOrZero(t.res)],
                                !.loading = FALSE]
    /\ ev' = Toast("none")
    /\ UNCHANGED <<db, user, lastReq, authForm, tm, am, failures, usr>>

\* loadStats after each of its three awaits
LoadStatsResolved(i) ==
    /\ i \in 1..Len(tasks)
    /\ tasks[i].op = "loadStats" /\ tasks[i].phase = "replied"
    /\ LET t == tasks[i]
       IN  CASE t.step = 1 ->
                  /\ tasks' = [tasks EXCEPT ![i].step = 2, ![i].phase = "sent",
                                  ![i].req = CountReq("atividades", NULL),
                                  ![i].acc.turmasCount = CountOrZero(t.res)]
                  /\ dash' = dash
             [] t.step = 2 ->
                  /\ tasks' = [tasks EXCEPT ![i].step = 3, ![i].phase = "sent",
                                  ![i].req = CountReq("atividades", "pending"),
                                  ![i].acc.atividadesCount = CountOrZero(t.res)]
                  /\ dash' = dash
             [] t.step = 3 ->
                  /\ tasks' = Remove(tasks, i)
                  /\ dash' = [dash EXCEPT
                                !.stats = [totalTurmas |-> t.acc.turmasCount,
                                           totalAtividades |-> t.acc.atividadesCount,
                                           atividadesPendentes |-> CountOrZero(t.res)],
                                !.loading = FALSE]
    /\ ev' = Toast("none")
    /\ UNCHANGED <<db, user, lastReq, authForm, tm, am, failures, usr>>

ManagerOps ==
    {"loadTurmas", "turmaSubmit", "turmaDelete", "loadData", "ativSubmit", "ativDelete"}

\* a manager that unmounts leaves its running handlers behind: their requests
\* still complete, their setState calls no longer have an effect
Orphaned(ts) ==
    [k \in 1..Len(ts) |->
        IF ts[k].op \in ManagerOps THEN [ts[k] EXCEPT !.orphan = TRUE] ELSE ts[k]]

\* the tab's manager shows its content (not the Dashboard's or its own spinner)
TurmasShown == user # NULL /\ ~dash.loading /\ dash.activeTab = "turmas" /\ ~tm.loading
AtividadesShown ==
    user # NULL /\ ~dash.loading /\ dash.activeTab = "atividades" /\ ~am.loading

\* an open dialog is modal: nothing outside it can be clicked
ModalOpen ==
    \/ TurmasShown /\ tm.isDialogOpen
    \/ AtividadesShown /\ am.isDialogOpen

\* The components have no in-flight guard, so when a handler can be started is
\* up to the user: the patient user waits until no request is outstanding, the
\* other starts `left` more handlers whenever the page lets them.
UserMayStart == IF usr.patient THEN tasks = <<>> ELSE usr.left > 0

\* the user starts a handler; `creates` names the table it inserts into, if any
Click(creates) ==
    usr' = [usr EXCEPT !.left = IF usr.patient THEN @ ELSE @ - 1,
                       !.turmas = IF creates = "turmas" THEN @ - 1 ELSE @,
                       !.atividades = IF creates = "atividades" THEN @ - 1 ELSE @]

\* handleSignOut up to its await; the button is in the Dashboard's header
HandleSignOut ==
    /\ user # NULL /\ ~dash.loading /\ ~ModalOpen
    /\ UserMayStart
    /\ tasks' = Append(tasks, Task("signOut", 1, [verb |-> "signOut"], <<>>, FALSE))
    /\ ev' = Ev("handleSignOut", "none")
    /\ UNCHANGED <<db, user, lastReq, authForm, dash, tm, am, failures>>
    /\ Click("none")

\* handleSignOut after its await: signOut() has resolved, so the try block goes
\* on; the catch block runs only if signOut() throws, and a Result is returned,
\* not thrown
SignOutResolved(i) ==
    /\ Replied(i, "signOut", 1)
    /\ tasks' = Remove(tasks, i)
    /\ ev' = Ev("handleSignOut.await", "Logout realizado")
    /\ UNCHANGED <<db, user, lastReq, authForm, dash, tm, am, failures, usr>>

LoadTurmasTask(orphan) == Task("loadTurmas", 1, SelectTurmasReq, <<>>, orphan)
LoadDataTask(orphan) == Task("loadData", 1, SelectTurmaNamesReq, <<>>, orphan)

\* setActiveTab(tab): the manager of the tab left unmounts; the manager of the tab
\* entered mounts with its initial state and its useEffect starts the load
SetActiveTab(tab) ==
    /\ user # NULL /\ ~dash.loading /\ ~ModalOpen
    /\ tab # dash.activeTab
    /\ tab = "overview" \/ UserMayStart
    /\ dash' = [dash EXCEPT !.activeTab = tab]
    /\ tm' = TurmasManagerInit
    /\ am' = AtividadesManagerInit
    /\ tasks' = Orphaned(tasks) \o
                (CASE tab = "turmas" -> <<LoadTurmasTask(FALSE)>>
                   [] tab = "atividades" -> <<LoadDataTask(FALSE)>>
                   [] OTHER -> <<>>)
    /\ ev' = Toast("none")
    /\ UNCHANGED <<db, user, lastReq, authForm, failures>>
    /\ IF tab # "overview" THEN Click("none") ELSE usr' = usr

----------------------------------------------------------------------------
(* TurmasManager *)

\* the values the user types into the class form
TypedNames == {"", "a"}
TypedDescriptions == {""}

BlankTurmaForm == [name |-> "", description |-> ""]

\* `value || null` of an optional text field
OrNull(v) == IF v = "" THEN NULL ELSE v
\* `value || ''` when a row is copied into the form
OrEmpty(v) == IF v = NULL THEN "" ELSE v

\* resetForm
ResetTurmaForm(m) ==
    [m EXCEPT !.formData = BlankTurmaForm, !.editingTurma = <<>>, !.isDialogOpen = FALSE]

\* "Nova Turma": the trigger's onClick runs resetForm(), then the dialog trigger
\* asks onOpenChange(true); the last setIsDialogOpen of the batch stands
ClickNovaTurma ==
    /\ TurmasShown /\ ~tm.isDialogOpen
    /\ tm' = [ResetTurmaForm(tm) EXCEPT !.isDialogOpen = TRUE]
    /\ ev' = Toast("none")
    /\ UNCHANGED <<db, user, lastReq, authForm, dash, am, tasks, failures, usr>>

\* "Criar Primeira Turma", shown while the list is empty: setIsDialogOpen(true)
ClickCriarPrimeiraTurma ==
    /\ TurmasShown /\ ~tm.isDialogOpen
    /\ Len(tm.turmas) = 0
    /\ tm' = [tm EXCEPT !.isDialogOpen = TRUE]
    /\ ev' = Toast("none")
    /\ UNCHANGED <<db, user, lastReq, authForm, dash, am, tasks, failures, usr>>

\* startEdit(turma) from a card of the list
StartEditTurma(k) ==
    /\ TurmasShown /\ ~tm.isDialogOpen
    /\ k \in 1..Len(tm.turmas)
    /\ tm' = [tm EXCEPT !.editingTurma = <<tm.turmas[k]>>,
                        !.formData = [name |-> tm.turmas[k].name,
                                      description |-> OrEmpty(tm.turmas[k].description)],
                        !.isDialogOpen = TRUE]
    /\ ev' = Toast("none")
    /\ UNCHANGED <<db, user, lastReq, authForm, dash, am, tasks, failures, usr>>

\* handleInputChange in the open dialog
TurmaInputChange ==
    /\ TurmasShown /\ tm.isDialogOpen
    /\ \/ \E v \in TypedNames : tm' = [tm EXCEPT !.formData.name = v]
       \/ \E v \in TypedDescriptions : tm' = [tm EXCEPT !.formData.description = v]
    /\ tm' # tm
    /\ ev' = Toast("none")
    /\ UNCHANGED <<db, user, lastReq, authForm, dash, am, tasks, failures, usr>>

\* "Cancelar": resetForm
TurmaCancel ==
    /\ TurmasShown /\ tm.isDialogOpen
    /\ tm' = ResetTurmaForm(tm)
    /\ ev' = Toast("none")
    /\ UNCHANGED <<db, user, lastReq, authForm, dash, am, tasks, failures, usr>>

\* the dialog is dismissed (Escape, overlay, close button): onOpenChange(false)
TurmaDismiss ==
    /\ TurmasShown /\ tm.isDialogOpen
    /\ tm' = [tm EXCEPT !.isDialogOpen = FALSE]
    /\ ev' = Toast("none")
    /\ UNCHANGED <<db, user, lastReq, authForm, dash, am, tasks, failures, usr>>

\* turmaData of handleSubmit
TurmaData(form) ==
    [name |-> form.name, description |-> OrNull(form.description), teacher_id |-> user]

\* handleSubmit without the `if (editingTurma)` branch: always the insert
TurmaSubmitReqAlwaysInsert(m) ==
    MutationReq("insert", "turmas", EmptyId, TurmaData(m.formData))

\* the request handleSubmit issues: update when a row is being edited, else insert
TurmaSubmitReq(m) ==
    IF m.editingTurma # <<>>
    THEN MutationReq("update", "turmas", m.editingTurma[1].id, TurmaData(m.formData))
    ELSE MutationReq("insert", "turmas", EmptyId, TurmaData(m.formData))

\* handleSubmit up to its await.  The form's submit event fires only when the
\* `required` name input is filled in.
TurmaHandleSubmit ==
    /\ TurmasShown /\ tm.isDialogOpen
    /\ tm.formData.name # ""
    /\ UserMayStart
    /\ tm.editingTurma # <<>> \/ usr.turmas > 0
    /\ tasks' = Append(tasks, OnBehalfOf(Task("turmaSubmit", 1, TurmaSubmitReq(tm), <<>>, FALSE),
                                         MutationHist(TurmaSubmitReq(tm), "none", "none")))
    /\ ev' = Toast("none")
    /\ UNCHANGED <<db, user, lastReq, authForm, dash, tm, am, failures>>
    /\ Click(IF tm.editingTurma # <<>> THEN "none" ELSE "turmas")

\* loadTurmas() called from a running handler: setLoading(true) and the query
StartLoadTurmas(m, orphan) == IF orphan THEN m ELSE [m EXCEPT !.loading = TRUE]

\* handleSubmit with resetForm() missing from the update branch
TurmaSubmitResolvedKeepsDialog(i) ==
    /\ Replied(i, "turmaSubmit", 1)
    /\ LET t == tasks[i]
           upd == t.req.verb = "update"
       IN  IF t.res.error
           THEN /\ tasks' = Remove(tasks, i)
                /\ tm' = tm
                /\ ev' = Toast(IF upd THEN "Nao foi possivel atualizar a turma."
                            ELSE "Nao foi possivel criar a turma.")
           ELSE /\ tasks' = Remove(tasks, i) \o
                              <<Showing(OnBehalfOf(LoadTurmasTask(t.orphan), t.hist), tm.turmas),
                                OnBehalfOf(LoadStatsTask, t.hist)>>
                /\ tm' = IF t.orphan THEN tm
                         ELSE IF upd THEN StartLoadTurmas(tm, FALSE)
                         ELSE ResetTurmaForm(StartLoadTurmas(tm, FALSE))
                /\ ev' = Toast(IF upd THEN "Turma atualizada com sucesso!"
                            ELSE "Turma criada com sucesso!")
    /\ UNCHANGED <<db, user, lastReq, authForm, dash, am, failures, usr>>

\* handleSubmit after its await
TurmaSubmitResolved(i) ==
    /\ Replied(i, "turmaSubmit", 1)
    /\ LET t == tasks[i]
           upd == t.req.verb = "update"
       IN  IF t.res.error
           THEN /\ tasks' = Remove(tasks, i)
                /\ tm' = tm
                /\ ev' = Toast(IF upd THEN "Nao foi possivel atualizar a turma."
                            ELSE "Nao foi possivel criar a turma.")
           ELSE /\ tasks' = Remove(tasks, i) \o
                              <<Showing(OnBehalfOf(LoadTurmasTask(t.orphan), t.hist), tm.turmas),
                                OnBehalfOf(LoadStatsTask, t.hist)>>
                /\ tm' = IF t.orphan THEN tm
                         ELSE ResetTurmaForm(StartLoadTurmas(tm, FALSE))
                /\ ev' = Toast(IF upd THEN "Turma atualizada com sucesso!"
                            ELSE "Turma criada com sucesso!")
    /\ UNCHANGED <<db, user, lastReq, authForm, dash, am, failures, usr>>

\* handleDelete without the confirm() guard: the answer is not looked at
TurmaHandleDeleteUnconfirmed(k, yes) ==
    /\ TurmasShown /\ ~tm.isDialogOpen
    /\ k \in 1..Len(tm.turmas)
    /\ UserMayStart
    /\ LET req == MutationReq("delete", "turmas", tm.turmas[k].id, <<>>)
       IN  tasks' = Append(tasks, OnBehalfOf(Task("turmaDelete", 1, req, <<>>, FALSE),
                                             MutationHist(req, "none", "none")))
    /\ ev' = Toast("none")
    /\ UNCHANGED <<db, user, lastReq, authForm, dash, tm, am, failures>>
    /\ Click("none")

\* handleDelete(turma.id) up to its await; confirm() answers yes or no
TurmaHandleDelete(k, yes) ==
    /\ TurmasShown /\ ~tm.isDialogOpen
    /\ k \in 1..Len(tm.turmas)
    /\ IF yes
       THEN /\ UserMayStart
            /\ LET req == MutationReq("delete", "turmas", tm.turmas[k].id, <<>>)
               IN  tasks' = Append(tasks, OnBehalfOf(Task("turmaDelete", 1, req, <<>>, FALSE),
                                                     MutationHist(req, "none", "none")))
       ELSE tasks' = tasks
    /\ ev' = Toast("none")
    /\ UNCHANGED <<db, user, lastReq, authForm, dash, tm, am, failures>>
    /\ IF yes THEN Click("none") ELSE usr' = usr

\* handleDelete calling loadTurmas() twice after the success toast
TurmaDeleteResolvedLoadsTwice(i) ==
    /\ Replied(i, "turmaDelete", 1)
    /\ LET t == tasks[i]
       IN  IF t.res.error
           THEN /\ tasks' = Remove(tasks, i)
                /\ tm' = tm
                /\ ev' = Toast("Nao foi possivel excluir a turma.")
           ELSE /\ tasks' = Remove(tasks, i) \o
                              <<Showing(OnBehalfOf(LoadTurmasTask(t.orphan), t.hist), tm.turmas),
                                Showing(OnBehalfOf(LoadTurmasTask(t.orphan), t.hist), tm.turmas),
                                OnBehalfOf(LoadStatsTask, t.hist)>>
                /\ tm' = StartLoadTurmas(tm, t.orphan)
                /\ ev' = Toast("Turma excluida com sucesso!")
    /\ UNCHANGED <<db, user, lastReq, authForm, dash, am, failures, usr>>

\* handleDelete after its await
TurmaDeleteResolved(i) ==
    /\ Replied(i, "turmaDelete", 1)
    /\ LET t == tasks[i]
       IN  IF t.res.error
           THEN /\ tasks' = Remove(tasks, i)
                /\ tm' = tm
                /\ ev' = Toast("Nao foi possivel excluir a turma.")
           ELSE /\ tasks' = Remove(tasks, i) \o
                              <<Showing(OnBehalfOf(LoadTurmasTask(t.orphan), t.hist), tm.turmas),
                                OnBehalfOf(LoadStatsTask, t.hist)>>
                /\ tm' = StartLoadTurmas(tm, t.orphan)
                /\ ev' = Toast("Turma excluida com sucesso!")
    /\ UNCHANGED <<db, user, lastReq, authForm, dash, am, failures, usr>>

\* loadTurmas with `setTurmas(data || [])` moved out of the else branch
LoadTurmasResolvedDropsList(i) ==
    /\ Replied(i, "loadTurmas", 1)
    /\ LET t == tasks[i]
       IN  /\ tm' = IF t.orphan THEN tm
                    ELSE IF t.res.error THEN [tm EXCEPT !.turmas = <<>>, !.loading = FALSE]
                    ELSE [tm EXCEPT !.turmas = t.res.data, !.loading = FALSE]
           /\ ev' = Toast(IF t.res.error THEN "Nao foi possivel carregar as turmas."
                       ELSE "none")
    /\ tasks' = Remove(tasks, i)
    /\ UNCHANGED <<db, user, lastReq, authForm, dash, am, failures, usr>>

\* loadTurmas with a guard that drops the answer of a load when the manager
\* has started a later one
LoadTurmasResolvedLatestOnly(i) ==
    /\ Replied(i, "loadTurmas", 1)
    /\ LET t == tasks[i]
           later == \E j \in (i + 1)..Len(tasks) :
                       tasks[j].op = "loadTurmas" /\ ~tasks[j].orphan
       IN  /\ tm' = IF t.orphan \/ later THEN tm
                    ELSE IF t.res.error THEN [tm EXCEPT !.loading = FALSE]
                    ELSE [tm EXCEPT !.turmas = t.res.data, !.loading = FALSE]
           /\ ev' = Toast(IF t.res.error THEN "Nao foi possivel carregar as turmas."
                       ELSE "none")
    /\ tasks' = Remove(tasks, i)
    /\ UNCHANGED <<db, user, lastReq, authForm, dash, am, failures, usr>>

\* loadTurmas after its await
LoadTurmasResolved(i) ==
    /\ Replied(i, "loadTurmas", 1)
    /\ LET t == tasks[i]
       IN  /\ tm' = IF t.orphan THEN tm
                    ELSE IF t.res.error THEN [tm EXCEPT !.loading = FALSE]
                    ELSE [tm EXCEPT !.turmas = t.res.data, !.loading = FALSE]
           /\ ev' = Toast(IF t.res.error THEN "Nao foi possivel carregar as turmas."
                       ELSE "none")
    /\ tasks' = Remove(tasks, i)
    /\ UNCHANGED <<db, user, lastReq, authForm, dash, am, failures, usr>>

----------------------------------------------------------------------------
(* AtividadesManager.  The optional fields description and due_date are handled  *)
(* alike (`value || null`, `value || ''`); description stands for both, as it   *)
(* does for grade_level and subject of a class.                                 *)

BlankAtividadeForm ==
    [title |-> "", description |-> "", status |-> "pending", turma_id |-> EmptyId]

\* resetForm
ResetAtividadeForm(m) ==
    [m EXCEPT !.formData = BlankAtividadeForm, !.editingAtividade = <<>>,
              !.isDialogOpen = FALSE]

\* "Nova Atividade", disabled={turmas.length === 0}
ClickNovaAtividade ==
    /\ AtividadesShown /\ ~am.isDialogOpen
    /\ Len(am.turmas) # 0
    /\ am' = [ResetAtividadeForm(am) EXCEPT !.isDialogOpen = TRUE]
    /\ ev' = Toast("none")
    /\ UNCHANGED <<db, user, lastReq, authForm, dash, tm, tasks, failures, usr>>

\* "Criar Primeira Atividade", rendered when there are classes and no assignments
ClickCriarPrimeiraAtividade ==
    /\ AtividadesShown /\ ~am.isDialogOpen
    /\ Len(am.turmas) # 0 /\ Len(am.atividades) = 0
    /\ am' = [am EXCEPT !.isDialogOpen = TRUE]
    /\ ev' = Toast("none")
    /\ UNCHANGED <<db, user, lastReq, authForm, dash, tm, tasks, failures, usr>>

\* the cards are rendered when both lists are non-empty
AtividadeCardsShown ==
    AtividadesShown /\ ~am.isDialogOpen /\ Len(am.turmas) # 0 /\ Len(am.atividades) # 0

\* startEdit(atividade)
StartEditAtividade(k) ==
    /\ AtividadeCardsShown
    /\ k \in 1..Len(am.atividades)
    /\ am' = [am EXCEPT !.editingAtividade = <<am.atividades[k]>>,
                        !.formData = [title |-> am.atividades[k].title,
                                      description |-> OrEmpty(am.atividades[k].description),
                                      status |-> am.atividades[k].status,
                                      turma_id |-> am.atividades[k].turma_id],
                        !.isDialogOpen = TRUE]
    /\ ev' = Toast("none")
    /\ UNCHANGED <<db, user, lastReq, authForm, dash, tm, tasks, failures, usr>>

\* handleInputChange and the two Selects' onValueChange in the open dialog; the
\* class Select offers the loaded classes
AtividadeInputChange ==
    /\ AtividadesShown /\ am.isDialogOpen
    /\ \/ \E v \in TypedNames : am' = [am EXCEPT !.formData.title = v]
       \/ \E v \in Statuses : am' = [am EXCEPT !.formData.status = v]
       \/ \E k \in 1..Len(am.turmas) : am' = [am EXCEPT !.formData.turma_id = am.turmas[k].id]
    /\ am' # am
    /\ ev' = Toast("none")
    /\ UNCHANGED <<db, user, lastReq, authForm, dash, tm, tasks, failures, usr>>

\* "Cancelar": resetForm
AtividadeCancel ==
    /\ AtividadesShown /\ am.isDialogOpen
    /\ am' = ResetAtividadeForm(am)
    /\ ev' = Toast("none")
    /\ UNCHANGED <<db, user, lastReq, authForm, dash, tm, tasks, failures, usr>>

\* the dialog is dismissed: onOpenChange(false)
AtividadeDismiss ==
    /\ AtividadesShown /\ am.isDialogOpen
    /\ am' = [am EXCEPT !.isDialogOpen = FALSE]
    /\ ev' = Toast("none")
    /\ UNCHANGED <<db, user, lastReq, authForm, dash, tm, tasks, failures, usr>>

\* atividadeData of handleSubmit
AtividadeData(form) ==
    [title |-> form.title, description |-> OrNull(form.description),
     status |-> form.status, turma_id |-> form.turma_id, teacher_id |-> user]

AtividadeSubmitReq(m) ==
    IF m.editingAtividade # <<>>
    THEN MutationReq("update", "atividades", m.editingAtividade[1].id,
                     AtividadeData(m.formData))
    ELSE MutationReq("insert", "atividades", EmptyId, AtividadeData(m.formData))

\* handleSubmit up to its await.  Only the title input is `required`; the class
\* Select takes no part in the form's validation.
AtividadeHandleSubmit ==
    /\ AtividadesShown /\ am.isDialogOpen
    /\ am.formData.title # ""
    /\ UserMayStart
    /\ am.editingAtividade # <<>> \/ usr.atividades > 0
    /\ tasks' = Append(tasks,
                OnBehalfOf(Task("ativSubmit", 1, AtividadeSubmitReq(am), <<>>, FALSE),
                           MutationHist(AtividadeSubmitReq(am),
                                        IF am.editingAtividade # <<>>
                                        THEN am.editingAtividade[1].status ELSE "none",
                                        am.formData.status)))
    /\ ev' = Toast("none")
    /\ UNCHANGED <<db, user, lastReq, authForm, dash, tm, am, failures>>
    /\ Click(IF am.editingAtividade # <<>> THEN "none" ELSE "atividades")

\* loadData() called from a running handler: setLoading(true) and the first query
StartLoadData(m, orphan) == IF orphan THEN m ELSE [m EXCEPT !.loading = TRUE]

\* handleSubmit with resetForm() called after the if, on either branch
AtividadeSubmitResolvedResetsOnError(i) ==
    /\ Replied(i, "ativSubmit", 1)
    /\ LET t == tasks[i]
           upd == t.req.verb = "update"
       IN  IF t.res.error
           THEN /\ tasks' = Remove(tasks, i)
                /\ am' = IF t.orphan THEN am ELSE ResetAtividadeForm(am)
                /\ ev' = Toast(IF upd THEN "Nao foi possivel atualizar a atividade."
                            ELSE "Nao foi possivel criar a atividade.")
           ELSE /\ tasks' = Remove(tasks, i) \o
                              <<Showing(OnBehalfOf(LoadDataTask(t.orphan), t.hist), am.atividades),
                                OnBehalfOf(LoadStatsTask, t.hist)>>
                /\ am' = IF t.orphan THEN am
                         ELSE ResetAtividadeForm(StartLoadData(am, FALSE))
                /\ ev' = Toast(IF upd THEN "Atividade atualizada com sucesso!"
                            ELSE "Atividade criada com sucesso!")
    /\ UNCHANGED <<db, user, lastReq, authForm, dash, tm, failures, usr>>

\* handleSubmit after its await
AtividadeSubmitResolved(i) ==
    /\ Replied(i, "ativSubmit", 1)
    /\ LET t == tasks[i]
           upd == t.req.verb = "update"
       IN  IF t.res.error
           THEN /\ tasks' = Remove(tasks, i)
                /\ am' = am
                /\ ev' = Toast(IF upd THEN "Nao foi possivel atualizar a atividade."
                            ELSE "Nao foi possivel criar a atividade.")
           ELSE /\ tasks' = Remove(tasks, i) \o
                              <<Showing(OnBehalfOf(LoadDataTask(t.orphan), t.hist), am.atividades),
                                OnBehalfOf(LoadStatsTask, t.hist)>>
                /\ am' = IF t.orphan THEN am
                         ELSE ResetAtividadeForm(StartLoadData(am, FALSE))
                /\ ev' = Toast(IF upd THEN "Atividade atualizada com sucesso!"
                            ELSE "Atividade criada com sucesso!")
    /\ UNCHANGED <<db, user, lastReq, authForm, dash, tm, failures, usr>>

\* handleDelete(atividade.id) up to its await; confirm() answers yes or no
AtividadeHandleDelete(k, yes) ==
    /\ AtividadeCardsShown
    /\ k \in 1..Len(am.atividades)
    /\ IF yes
       THEN /\ UserMayStart
            /\ LET req == MutationReq("delete", "atividades", am.atividades[k].id, <<>>)
               IN  tasks' = Append(tasks, OnBehalfOf(Task("ativDelete", 1, req, <<>>, FALSE),
                                                     MutationHist(req, "none", "none")))
       ELSE tasks' = tasks
    /\ ev' = Toast("none")
    /\ UNCHANGED <<db, user, lastReq, authForm, dash, tm, am, failures>>
    /\ IF yes THEN Click("none") ELSE usr' = usr

\* handleDelete with the onStatsChange() call missing
AtividadeDeleteResolvedNoRefresh(i) ==
    /\ Replied(i, "ativDelete", 1)
    /\ LET t == tasks[i]
       IN  IF t.res.error
           THEN /\ tasks' = Remove(tasks, i)
                /\ am' = am
                /\ ev' = Toast("Nao foi possivel excluir a atividade.")
           ELSE /\ tasks' = Remove(tasks, i) \o
                              <<Showing(OnBehalfOf(LoadDataTask(t.orphan), t.hist), am.atividades)>>
                /\ am' = StartLoadData(am, t.orphan)
                /\ ev' = Toast("Atividade excluida com sucesso!")
    /\ UNCHANGED <<db, user, lastReq, authForm, dash, tm, failures, usr>>

\* handleDelete after its await
AtividadeDeleteResolved(i) ==
    /\ Replied(i, "ativDelete", 1)
    /\ LET t == tasks[i]
       IN  IF t.res.error
           THEN /\ tasks' = Remove(tasks, i)
                /\ am' = am
                /\ ev' = Toast("Nao foi possivel excluir a atividade.")
           ELSE /\ tasks' = Remove(tasks, i) \o
                              <<Showing(OnBehalfOf(LoadDataTask(t.orphan), t.hist), am.atividades),
                                OnBehalfOf(LoadStatsTask, t.hist)>>
                /\ am' = StartLoadData(am, t.orphan)
                /\ ev' = Toast("Atividade excluida com sucesso!")
    /\ UNCHANGED <<db, user, lastReq, authForm, dash, tm, failures, usr>>

\* loadData after its first await (the classes), up to its second
LoadDataTurmasResolved(i) ==
    /\ Replied(i, "loadData", 1)
    /\ LET t == tasks[i]
       IN  am' = IF t.orphan \/ t.res.error THEN am ELSE [am EXCEPT !.turmas = t.res.data]
    /\ tasks' = [tasks EXCEPT ![i].step = 2, ![i].phase = "sent",
                              ![i].req = SelectAtividadesReq]
    /\ ev' = Toast("none")
    /\ UNCHANGED <<db, user, lastReq, authForm, dash, tm, failures, usr>>

\* loadData after its second await (the assignments)
LoadDataAtividadesResolved(i) ==
    /\ Replied(i, "loadData", 2)
    /\ LET t == tasks[i]
       IN  /\ am' = IF t.orphan THEN am
                    ELSE IF t.res.error THEN [am EXCEPT !.loading = FALSE]
                    ELSE [am EXCEPT !.atividades = t.res.data, !.loading = FALSE]
           /\ ev' = Toast(IF t.res.error THEN "Nao foi possivel carregar as atividades."
                       ELSE "none")
    /\ tasks' = Remove(tasks, i)
    /\ UNCHANGED <<db, user, lastReq, authForm, dash, tm, failures, usr>>

----------------------------------------------------------------------------
(* SpecAuth: nobody is signed in and no account exists.  Visitors sign up and *)
(* sign in through the AuthForm; a signed-in teacher sees the Dashboard load  *)
(* and signs out from its header.                                             *)

InitAuth ==
    /\ db = [users |-> {}, profiles |-> {}, turmas |-> {}, atividades |-> {},
             nextTurma |-> 1, nextAtividade |-> 1]
    /\ user = NULL
    /\ lastReq = NoReq
    /\ authForm = AuthFormInit
    /\ dash = DashInit
    /\ tm = TurmasManagerInit
    /\ am = AtividadesManagerInit
    /\ tasks = <<>>
    /\ failures = 0
    /\ usr = Patient
    /\ ev = NoEv

NextAuth ==
    \/ AuthInputChange
    \/ HandleSignUp
    \/ HandleSignIn
    \/ HandleSignOut
    \/ \E i \in 1..Len(tasks) :
        \/ AuthServiceSignUp(i)
        \/ AuthServiceSignIn(i)
        \/ AuthServiceSignOut(i)
        \/ SignUpResolved(i)
        \/ SignInResolved(i)
        \/ SignOutResolved(i)
        \/ ServerProcess(i)
        \/ LoadProfileResolved(i)
        \/ LoadStatsResolved(i)

SpecAuth == InitAuth /\ [][NextAuth]_vars

----------------------------------------------------------------------------
(* Spec: teacher A is signed in and the Dashboard has just mounted; its       *)
(* useEffect has started loadProfile() and loadStats().  Teacher B owns one   *)
(* class with one assignment.                                                 *)

InitialDb ==
    LET d1 == InsertTurma("B", [name |-> "b", description |-> NULL, teacher_id |-> "B"],
                          EmptyDb).db
    IN  InsertAtividade("B", [title |-> "b", description |-> NULL, status |-> "pending",
                              turma_id |-> 1, teacher_id |-> "B"], d1).db

Init ==
    /\ db = InitialDb
    /\ user = "A"
    /\ lastReq = NoReq
    /\ authForm = AuthFormInit
    /\ dash = DashInit
    /\ tm = TurmasManagerInit
    /\ am = AtividadesManagerInit
    /\ tasks = <<Task("loadProfile", 1, [verb |-> "select", table |-> "profiles",
                                         user_id |-> "A"], <<>>, FALSE),
                 Task("loadStats", 1, [verb |-> "count", table |-> "turmas",
                                       teacher |-> "A", status |-> NULL],
                      [turmasCount |-> 0, atividadesCount |-> 0], FALSE)>>
    /\ failures = 0
    /\ usr = Patient
    /\ ev = NoEv

\* what the user does on the page
UserStep ==
    \/ \E tab \in {"overview", "turmas", "atividades"} : SetActiveTab(tab)
    \/ ClickNovaTurma
    \/ ClickCriarPrimeiraTurma
    \/ \E k \in 1..Len(tm.turmas) : StartEditTurma(k)
    \/ TurmaInputChange
    \/ TurmaCancel
    \/ TurmaDismiss
    \/ TurmaHandleSubmit
    \/ \E k \in 1..Len(tm.turmas), yes \in BOOLEAN : TurmaHandleDelete(k, yes)
    \/ ClickNovaAtividade
    \/ ClickCriarPrimeiraAtividade
    \/ \E k \in 1..Len(am.atividades) : StartEditAtividade(k)
    \/ AtividadeInputChange
    \/ AtividadeCancel
    \/ AtividadeDismiss
    \/ AtividadeHandleSubmit
    \/ \E k \in 1..Len(am.atividades), yes \in BOOLEAN : AtividadeHandleDelete(k, yes)

\* the store answers a request; a handler continues after its await
HandlerStep ==
    \E i \in 1..Len(tasks) :
        \/ ServerProcess(i)
        \/ LoadProfileResolved(i)
        \/ LoadStatsResolved(i)
        \/ LoadTurmasResolved(i)
        \/ TurmaSubmitResolved(i)
        \/ TurmaDeleteResolved(i)
        \/ LoadDataTurmasResolved(i)
        \/ LoadDataAtividadesResolved(i)
        \/ AtividadeSubmitResolved(i)
        \/ AtividadeDeleteResolved(i)

Next ==
    \/ UserStep
    \/ HandlerStep
    \/ \E i \in 1..Len(tasks) : ServerFail(i)

Spec == Init /\ [][Next]_vars

----------------------------------------------------------------------------
(* SpecOverlap: the user does not wait for answers.  Teacher A owns class 2   *)
(* with the pending assignment 2 (both created as in Spec), the Dashboard has *)
(* loaded, and the run starts in one of two states the page reaches from      *)
(* there: the Turmas tab after its load; or the Atividades tab after its load *)
(* while the delete of class 2, confirmed on the Turmas tab just before the   *)
(* user changed tab, is still on its way.  The user starts at most MaxClicks  *)
(* handlers without waiting, the delete on its way being one of them.         *)

OverlapDb ==
    LET d1 == InsertTurma("A", [name |-> "a", description |-> NULL, teacher_id |-> "A"],
                          InitialDb).db
    IN  InsertAtividade("A", [title |-> "a", description |-> NULL, status |-> "pending",
                              turma_id |-> 2, teacher_id |-> "A"], d1).db

DashLoaded(tab) ==
    [profile |-> <<[user_id |-> "A", full_name |-> "a"]>>,
     stats |-> [totalTurmas |-> 1, totalAtividades |-> 1, atividadesPendentes |-> 1],
     activeTab |-> tab,
     loading |-> FALSE]

TurmasTabLoaded ==
    /\ dash = DashLoaded("turmas")
    /\ tm = [TurmasManagerInit EXCEPT
                !.turmas = OrderDesc(SelectTurmas("A", "A", OverlapDb)),
                !.loading = FALSE]
    /\ am = AtividadesManagerInit
    /\ tasks = <<>>

AtividadesTabLoaded ==
    /\ dash = DashLoaded("atividades")
    /\ tm = TurmasManagerInit
    /\ am = [AtividadesManagerInit EXCEPT
                !.turmas = IdName(SelectTurmas("A", "A", OverlapDb)),
                !.atividades = MapSeq("A", OrderDesc(SelectAtividades("A", "A", OverlapDb)),
                                      OverlapDb),
                !.loading = FALSE]

\* handleDelete of class 2, started on the Turmas tab and left behind by the tab change
TurmaDeleteLeftBehind ==
    LET req == [verb |-> "delete", table |-> "turmas", id |-> 2, data |-> <<>>]
    IN  [Task("turmaDelete", 1, req, <<>>, TRUE) EXCEPT
            !.hist = [NoHist EXCEPT !.verb = "delete", !.table = "turmas", !.id = 2,
                                    !.before = DashLoaded("turmas").stats]]

InitOverlap ==
    /\ db = OverlapDb
    /\ user = "A"
    /\ lastReq = NoReq
    /\ authForm = AuthFormInit
    /\ \/ TurmasTabLoaded
       \/ AtividadesTabLoaded /\ tasks = <<TurmaDeleteLeftBehind>>
    /\ failures = MaxFailures
    /\ usr = [patient |-> FALSE,
              left |-> IF tasks = <<>> THEN MaxClicks ELSE MaxClicks - 1,
              turmas |-> MaxTurmas, atividades |-> MaxAtividades]
    /\ ev = NoEv

NextOverlap ==
    \/ UserStep
    \/ HandlerStep

SpecOverlap == InitOverlap /\ [][NextOverlap]_vars

----------------------------------------------------------------------------
(* SpecOverlapFail: the user of SpecOverlap on the loaded Turmas tab, with    *)
(* store requests that may fail in transit as in Spec.                        *)

InitOverlapFail ==
    /\ db = OverlapDb
    /\ user = "A"
    /\ lastReq = NoReq
    /\ authForm = AuthFormInit
    /\ TurmasTabLoaded
    /\ failures = 0
    /\ usr = [patient |-> FALSE, left |-> MaxClicks,
              turmas |-> MaxTurmas, atividades |-> MaxAtividades]
    /\ ev = NoEv

SpecOverlapFail == InitOverlapFail /\ [][Next]_vars

----------------------------------------------------------------------------
(* AuthForm properties (SpecAuth) *)

\* C1: a sign-up submission whose password differs from the confirmation issues
\* no signUp request (no task is started) and leaves loading false.
C1_MismatchIssuesNoSignUp ==
    [][(/\ ev'.op = "handleSignUp"
        /\ authForm.formData.password # authForm.formData.confirmPassword)
       => (tasks' = tasks /\ ~authForm'.loading)]_vars

\* a mismatched sign-up has just been submitted and rejected
C1_Witness ==
    /\ ev = Ev("handleSignUp", "As senhas nao coincidem")
    /\ authForm.formData.password # authForm.formData.confirmPassword
    /\ ~authForm.loading
    /\ tasks = <<>>

ProfilesOf(uid) == {p \in db.profiles : p.user_id = uid}

\* C9: after a successful sign-up with full name N exactly one profile row exists
\* for the new user and its full_name is N; every account has exactly one profile;
\* the client itself issues no insert, update or delete (no insert into profiles).
C9_ProfileSeededByTrigger ==
    /\ \A i \in 1..Len(tasks) :
        (tasks[i].op = "signUp" /\ tasks[i].phase = "replied" /\ ~tasks[i].res.error)
        => /\ \E u \in db.users : u.email = tasks[i].req.email
           /\ \A u \in db.users :
                u.email = tasks[i].req.email
                => /\ Cardinality(ProfilesOf(u.id)) = 1
                   /\ \A p \in ProfilesOf(u.id) : p.full_name = tasks[i].req.data.full_name
    /\ \A u \in db.users : Cardinality(ProfilesOf(u.id)) = 1
    /\ \A i \in 1..Len(tasks) : tasks[i].req.verb \notin {"insert", "update", "delete"}

\* a sign-up as "Ana" has succeeded and its answer is waiting for the form
C9_Witness ==
    \E i \in 1..Len(tasks) :
        /\ tasks[i].op = "signUp" /\ tasks[i].phase = "replied" /\ ~tasks[i].res.error
        /\ tasks[i].req.data.full_name = "Ana"
        /\ \E p \in db.profiles : p.user_id = tasks[i].req.email /\ p.full_name = "Ana"

\* C14: when sign-in, sign-up or sign-out returns an AuthError result, the handler
\* raises its failure toast and not a success toast; a sign-out that returned an
\* error does not raise "Logout realizado".
C14_AuthErrorRaisesFailureToast ==
    [][\A i \in 1..Len(tasks) :
        /\ (SignInResolved(i) /\ tasks[i].res.error) => ev'.toast = "Erro no login"
        /\ (SignUpResolved(i) /\ tasks[i].res.error) => ev'.toast = "Erro no cadastro"
        /\ (SignOutResolved(i) /\ tasks[i].res.error) => ev'.toast = "Erro no logout"]_vars

----------------------------------------------------------------------------
(* Storage-layer properties (SpecStore) *)

TurmaIds(d) == {t.id : t \in d.turmas}

\* ids the turmas table handed out whose row is gone: the deleted classes
DeletedTurmaIds(d) == (1..(d.nextTurma - 1)) \ TurmaIds(d)

\* C5: once a class has been deleted, the store holds no assignment whose turma_id
\* is that class's id, and no teacher's assignment load returns one.
C5_DeleteCascades ==
    \A id \in DeletedTurmaIds(db) :
        /\ \A a \in db.atividades : a.turma_id # id
        /\ \A u \in Teachers : \A a \in SelectAtividades(u, u, db) : a.turma_id # id

\* a class delete has just removed the class together with assignments of it
C5_Witness ==
    /\ lastReq.verb = "delete" /\ lastReq.table = "turmas" /\ ~lastReq.error
    /\ lastReq.affected >= 2
    /\ DeletedTurmaIds(db) # {}

\* C7: no request under one teacher's identity returns, changes, removes or
\* produces a row whose teacher_id is another teacher.
C7_OwnerIsolation == lastReq.owners \subseteq {lastReq.uid}

\* C8: every assignment's class exists and belongs to the assignment's teacher.
C8_ClassOfSameTeacher ==
    \A a \in db.atividades :
        \E t \in db.turmas : t.id = a.turma_id /\ t.teacher_id = a.teacher_id

----------------------------------------------------------------------------
(* Controller properties *)

\* C10: a submit with a required field missing (class name empty, assignment
\* title empty, or no parent class selected) issues no insert and no update:
\* every mutation request a submit has issued carries all its required fields.
C10_RequiredFieldsOrNoRequest ==
    \A i \in 1..Len(tasks) :
        tasks[i].op \in {"turmaSubmit", "ativSubmit"}
        => IF tasks[i].req.table = "turmas"
           THEN tasks[i].req.data.name # ""
           ELSE tasks[i].req.data.title # "" /\ tasks[i].req.data.turma_id # EmptyId

\* the assignment dialog is on screen in Creating
CreatingAtividadeShown == AtividadesShown /\ am.isDialogOpen /\ am.editingAtividade = <<>>

\* C2: while the loaded class list is empty the assignment dialog is never entered
\* in Creating (it does not come on screen in a step that ends with the list
\* empty) and no submit issues an assignment insert.
C2_NoCreateWithoutClasses ==
    /\ [][(CreatingAtividadeShown' /\ Len(am'.turmas) = 0) => CreatingAtividadeShown]_vars
    /\ [][(AtividadeHandleSubmit /\ am.editingAtividade = <<>>) => Len(am.turmas) # 0]_vars

\* the rows with id `id` in a load's answer
Occurrences(data, id) == Cardinality({k \in 1..Len(data) : data[k].id = id})

\* task t is a load of the controller's own rows whose answer has arrived
RowsLoaded(t) ==
    /\ t.phase = "replied" /\ ~t.res.error
    /\ t.op = "loadTurmas" \/ (t.op = "loadData" /\ t.step = 2)

\* loadStats task i, started on behalf of a `verb` on `table`, displays its counts
\* in this step
Refreshed(i, verb, table) ==
    /\ tasks[i].op = "loadStats" /\ tasks[i].step = 3
    /\ tasks[i].hist.verb = verb /\ tasks[i].hist.table = table
    /\ LoadStatsResolved(i)

\* C3: after a successful create the load that follows returns the new row exactly
\* once, and the refresh that follows displays a count for that resource type
\* that is 1 greater than the one displayed when the submit was issued.
C3_CreateAddsOne ==
    /\ [](\A i \in 1..Len(tasks) :
            (RowsLoaded(tasks[i]) /\ tasks[i].hist.verb = "insert")
            => Occurrences(tasks[i].res.data, tasks[i].hist.id) = 1)
    /\ [][\A i \in 1..Len(tasks) :
            /\ Refreshed(i, "insert", "turmas")
               => dash'.stats.totalTurmas = tasks[i].hist.before.totalTurmas + 1
            /\ Refreshed(i, "insert", "atividades")
               => dash'.stats.totalAtividades = tasks[i].hist.before.totalAtividades + 1]_vars

\* C4: after a successful confirmed remove the load that follows does not return
\* the row, and the refresh that follows displays a count for that resource type
\* that is 1 less than the one displayed when the remove was confirmed.
C4_RemoveTakesOne ==
    /\ [](\A i \in 1..Len(tasks) :
            (RowsLoaded(tasks[i]) /\ tasks[i].hist.verb = "delete")
            => Occurrences(tasks[i].res.data, tasks[i].hist.id) = 0)
    /\ [][\A i \in 1..Len(tasks) :
            /\ Refreshed(i, "delete", "turmas")
               => dash'.stats.totalTurmas = tasks[i].hist.before.totalTurmas - 1
            /\ Refreshed(i, "delete", "atividades")
               => dash'.stats.totalAtividades = tasks[i].hist.before.totalAtividades - 1]_vars

\* C6: after a successful edit that takes an assignment from pending to completed
\* or in_progress the refresh displays a pending count 1 less and the same total
\* as when the submit was issued; after a successful create with the status left
\* at the form default the refresh displays a pending count 1 greater.
C6_PendingCountFollowsStatus ==
    [][\A i \in 1..Len(tasks) :
        /\ (/\ Refreshed(i, "update", "atividades")
            /\ tasks[i].hist.from = "pending"
            /\ tasks[i].hist.to \in {"completed", "in_progress"})
           => /\ dash'.stats.atividadesPendentes
                    = tasks[i].hist.before.atividadesPendentes - 1
              /\ dash'.stats.totalAtividades = tasks[i].hist.before.totalAtividades
        /\ (/\ Refreshed(i, "insert", "atividades")
            /\ tasks[i].hist.to = BlankAtividadeForm.status)
           => dash'.stats.atividadesPendentes
                    = tasks[i].hist.before.atividadesPendentes + 1]_vars

\* task i is a load of a mounted manager whose row query has failed
RowQueryFailed(i) == tasks[i].res.error /\ ~tasks[i].orphan

\* C11 as stated: when a load's row query fails, the manager's row list is the
\* list it held when that load was started, a failure toast is raised and the
\* loading flag is false.
C11_FailedLoadShowsListFromItsStart ==
    [][\A i \in 1..Len(tasks) :
        /\ (LoadTurmasResolved(i) /\ RowQueryFailed(i))
           => /\ tm'.turmas = tasks[i].hist.shown
              /\ ev'.toast = "Nao foi possivel carregar as turmas."
              /\ ~tm'.loading
        /\ (LoadDataAtividadesResolved(i) /\ RowQueryFailed(i))
           => /\ am'.atividades = tasks[i].hist.shown
              /\ ev'.toast = "Nao foi possivel carregar as atividades."
              /\ ~am'.loading]_vars

\* C11 amended: when a load's row query fails, handling the failure leaves the
\* manager's row list as it was just before (neither emptied nor replaced), raises
\* a failure toast and sets the loading flag to false.
C11_FailedLoadKeepsList ==
    [][\A i \in 1..Len(tasks) :
        /\ (LoadTurmasResolved(i) /\ RowQueryFailed(i))
           => /\ tm'.turmas = tm.turmas
              /\ ev'.toast = "Nao foi possivel carregar as turmas."
              /\ ~tm'.loading
        /\ (LoadDataAtividadesResolved(i) /\ RowQueryFailed(i))
           => /\ am'.atividades = am.atividades
              /\ ev'.toast = "Nao foi possivel carregar as atividades."
              /\ ~am'.loading]_vars

\* the load after a successful delete of the last class has failed: the Turmas
\* tab still lists the class
C11_Witness ==
    /\ ev.toast = "Nao foi possivel carregar as turmas."
    /\ dash.activeTab = "turmas" /\ ~tm.loading
    /\ Len(tm.turmas) = 1
    /\ SelectTurmas("A", "A", db) = {}

\* C12: when an insert, update or delete returns an error, handling the response
\* leaves the manager's row list, form contents, remembered editing row and
\* dialog-open flag as they were, and starts neither a load nor a refresh (the
\* handler just ends).
C12_StoreErrorLeavesStateAlone ==
    [][\A i \in 1..Len(tasks) :
        /\ ((TurmaSubmitResolved(i) \/ TurmaDeleteResolved(i)) /\ tasks[i].res.error)
           => /\ tm'.turmas = tm.turmas
              /\ tm'.formData = tm.formData
              /\ tm'.editingTurma = tm.editingTurma
              /\ tm'.isDialogOpen = tm.isDialogOpen
              /\ tasks' = Remove(tasks, i)
        /\ ((AtividadeSubmitResolved(i) \/ AtividadeDeleteResolved(i)) /\ tasks[i].res.error)
           => /\ am'.atividades = am.atividades
              /\ am'.formData = am.formData
              /\ am'.editingAtividade = am.editingAtividade
              /\ am'.isDialogOpen = am.isDialogOpen
              /\ tasks' = Remove(tasks, i)]_vars

\* the update of an assignment edit has failed: the dialog is still open on the
\* row with the status the user chose, and nothing is running
C12_Witness ==
    /\ ev.toast = "Nao foi possivel atualizar a atividade."
    /\ AtividadesShown /\ am.isDialogOpen
    /\ am.editingAtividade # <<>>
    /\ am.formData.status = "completed"
    /\ Len(am.atividades) = 1
    /\ tasks = <<>>

\* the delete requests on their way to the store
SentDeletes(ts) == {j \in 1..Len(ts) : ts[j].req.verb = "delete" /\ ts[j].phase = "sent"}

\* C13: a delete request is issued only by a handleDelete whose confirmation
\* prompt was answered yes, and it addresses the row of the card clicked; when
\* the answer is no, no request is issued and the manager's state is unchanged.
C13_DeleteOnlyWhenConfirmed ==
    /\ [][Cardinality(SentDeletes(tasks')) > Cardinality(SentDeletes(tasks))
          => LET new == tasks'[Len(tasks')]
             IN  /\ tasks' = Append(tasks, new)
                 /\ \/ \E k \in 1..Len(tm.turmas) :
                          /\ TurmaHandleDelete(k, TRUE)
                          /\ new.req.table = "turmas" /\ new.req.id = tm.turmas[k].id
                    \/ \E k \in 1..Len(am.atividades) :
                          /\ AtividadeHandleDelete(k, TRUE)
                          /\ new.req.table = "atividades"
                          /\ new.req.id = am.atividades[k].id]_vars
    /\ [][/\ \A k \in 1..Len(tm.turmas) :
               TurmaHandleDelete(k, FALSE) => tasks' = tasks /\ tm' = tm /\ db' = db
          /\ \A k \in 1..Len(am.atividades) :
               AtividadeHandleDelete(k, FALSE)
               => tasks' = tasks /\ am' = am /\ db' = db]_vars

\* the delete of the assignment on display, confirmed by the user, is on its way
C13_Witness ==
    /\ AtividadesShown /\ Len(am.atividades) = 1
    /\ Len(tasks) = 1
    /\ tasks[1].op = "ativDelete" /\ tasks[1].phase = "sent"
    /\ tasks[1].req.id = am.atividades[1].id

\* the handler of task i goes on after a store request other than a count
AnswerHandled(i) ==
    \/ LoadProfileResolved(i)
    \/ LoadTurmasResolved(i)
    \/ TurmaSubmitResolved(i)
    \/ TurmaDeleteResolved(i)
    \/ LoadDataTurmasResolved(i)
    \/ LoadDataAtividadesResolved(i)
    \/ AtividadeSubmitResolved(i)
    \/ AtividadeDeleteResolved(i)

\* C15: every store request that returns an error, the three count requests of
\* loadStats aside, makes its handler raise a toast; this includes loadData's
\* query of the classes and loadProfile's query.
C15_StoreErrorsRaiseToast ==
    [][\A i \in 1..Len(tasks) :
        (AnswerHandled(i) /\ tasks[i].res.error) => ev'.toast # "none"]_vars

\* C16: when a count request of loadStats fails, the count it was to supply is
\* taken as 0 and no toast is raised; loadStats displays the three counts it has
\* taken and the Dashboard leaves its loading state, failures or not.
C16_FailedCountShowsZero ==
    /\ [][\A i \in 1..Len(tasks) :
            (LoadStatsResolved(i) /\ tasks[i].res.error)
            => /\ ev'.toast = "none"
               /\ CASE tasks[i].step = 1 -> tasks'[i].acc.turmasCount = 0
                    [] tasks[i].step = 2 -> tasks'[i].acc.atividadesCount = 0
                    [] tasks[i].step = 3 -> dash'.stats.atividadesPendentes = 0]_vars
    /\ [][\A i \in 1..Len(tasks) :
            (LoadStatsResolved(i) /\ tasks[i].step = 3)
            => /\ dash'.stats.totalTurmas = tasks[i].acc.turmasCount
               /\ dash'.stats.totalAtividades = tasks[i].acc.atividadesCount
               /\ ~dash'.loading]_vars

\* the count of all assignments has failed during a refresh: the Dashboard shows
\* no assignment, one of them pending, and no toast
C16_Witness ==
    /\ ~dash.loading
    /\ dash.stats.totalAtividades = 0
    /\ dash.stats.atividadesPendentes = 1
    /\ ev.toast = "none"
    /\ failures = 1

\* C17: whichever way the create action is invoked (the header button or the
\* empty-list button), the dialog opens with every form field blank or at its
\* default and with no row remembered as being edited.
C17_CreateOpensBlank ==
    [][/\ (ClickNovaTurma \/ ClickCriarPrimeiraTurma)
          => /\ tm'.isDialogOpen
             /\ tm'.formData = BlankTurmaForm
             /\ tm'.editingTurma = <<>>
       /\ (ClickNovaAtividade \/ ClickCriarPrimeiraAtividade)
          => /\ am'.isDialogOpen
             /\ am'.formData = BlankAtividadeForm
             /\ am'.editingAtividade = <<>>]_vars

\* C18: whenever a manager's dialog is closed, no row is remembered as being
\* edited and the form is blank, however the dialog was closed.
C18_ClosedDialogIsIdle ==
    /\ ~tm.isDialogOpen => (tm.editingTurma = <<>> /\ tm.formData = BlankTurmaForm)
    /\ ~am.isDialogOpen
       => (am.editingAtividade = <<>> /\ am.formData = BlankAtividadeForm)

\* C19: immediately after a mounted manager has handled the success response of
\* a submit (an insert or an update), its dialog is closed, every form field is
\* blank or at its default and no row is remembered as being edited.
C19_SubmitSuccessReturnsToIdle ==
    [][\A i \in 1..Len(tasks) :
        /\ (TurmaSubmitResolved(i) /\ ~tasks[i].res.error /\ ~tasks[i].orphan)
           => /\ ~tm'.isDialogOpen
              /\ tm'.formData = BlankTurmaForm
              /\ tm'.editingTurma = <<>>
        /\ (AtividadeSubmitResolved(i) /\ ~tasks[i].res.error /\ ~tasks[i].orphan)
           => /\ ~am'.isDialogOpen
              /\ am'.formData = BlankAtividadeForm
              /\ am'.editingAtividade = <<>>]_vars

\* the update of a class edit has just succeeded: the Turmas manager has closed
\* the dialog, cleared the form and started its load
C19_Witness ==
    /\ ev.toast = "Turma atualizada com sucesso!"
    /\ dash.activeTab = "turmas"
    /\ ~tm.isDialogOpen /\ tm.formData = BlankTurmaForm /\ tm.editingTurma = <<>>
    /\ \E i \in 1..Len(tasks) :
          /\ tasks[i].op = "loadTurmas" /\ ~tasks[i].orphan
          /\ tasks[i].hist.verb = "update"

MutationOps == {"turmaSubmit", "turmaDelete", "ativSubmit", "ativDelete"}

LoadOps == {"loadTurmas", "loadData", "loadStats"}

\* the load of the manager that a mutation handler belongs to
LoadOf(op) == IF op \in {"turmaSubmit", "turmaDelete"} THEN "loadTurmas" ELSE "loadData"

\* how many calls of `op` are running
CountOp(ts, op) == Cardinality({j \in 1..Len(ts) : ts[j].op = op})

\* a handleSubmit or handleDelete continues after its await
MutationHandled(i) ==
    \/ TurmaSubmitResolved(i) \/ TurmaDeleteResolved(i)
    \/ AtividadeSubmitResolved(i) \/ AtividadeDeleteResolved(i)

\* C20: when a manager's handler continues after an insert, update or delete
\* that returned success, it starts exactly one load of that manager and exactly
\* one loadStats of the Dashboard, both at their first request, and no load of
\* the other manager; after an error it starts none.  Nothing is started before
\* the response: neither the step that starts the handler nor the step in which
\* the store answers the request starts a load or a loadStats.
C20_OneLoadOneRefreshAfterSuccess ==
    [][/\ \A i \in 1..Len(tasks) :
            MutationHandled(i) =>
                LET ok == ~tasks[i].res.error
                    n  == Len(tasks')
                IN  /\ \A op \in LoadOps :
                          CountOp(tasks', op) =
                              CountOp(tasks, op)
                              + (IF ok /\ op \in {LoadOf(tasks[i].op), "loadStats"}
                                 THEN 1 ELSE 0)
                    /\ ok => /\ n = Len(tasks) + 1
                             /\ {tasks'[n - 1].op, tasks'[n].op}
                                   = {LoadOf(tasks[i].op), "loadStats"}
                             /\ \A j \in {n - 1, n} :
                                   tasks'[j].step = 1 /\ tasks'[j].phase = "sent"
       /\ \A i \in 1..Len(tasks) :
            (tasks[i].op \in MutationOps /\ (ServerProcess(i) \/ ServerFail(i)))
                => \A op \in LoadOps : CountOp(tasks', op) = CountOp(tasks, op)
       /\ (\E op \in MutationOps : CountOp(tasks', op) > CountOp(tasks, op))
            => \A op \in LoadOps : CountOp(tasks', op) = CountOp(tasks, op)]_vars

\* the delete of an assignment has just succeeded: one loadData and one
\* loadStats run on its behalf, both at their first request
C20_Witness ==
    /\ ev.toast = "Atividade excluida com sucesso!"
    /\ CountOp(tasks, "loadData") = 1 /\ CountOp(tasks, "loadStats") = 1
    /\ \A j \in 1..Len(tasks) :
          tasks[j].op \in LoadOps
              => /\ tasks[j].hist.verb = "delete" /\ tasks[j].hist.table = "atividades"
                 /\ tasks[j].step = 1 /\ tasks[j].phase = "sent"

\* the request a submit must issue from the editing row `editing` (<<>> for none)
SubmitIssues(req, table, editing) ==
    /\ req.table = table
    /\ IF editing # <<>>
       THEN req.verb = "update" /\ req.id = editing[1].id
       ELSE req.verb = "insert" /\ req.data.teacher_id = user

\* C21: each submit issues exactly one mutation request: with a row remembered
\* as being edited, an update addressed to that row's id, and otherwise an
\* insert whose teacher_id is the current user's id.  The remembered row is the
\* row most recently passed to startEdit: only startEdit sets it (to the row of
\* the card that was clicked), every other step leaves it alone or clears it.
C21_SubmitIssuesOneRequest ==
    [][/\ TurmaHandleSubmit
            => /\ tasks' = Append(tasks, tasks'[Len(tasks')])
               /\ tasks'[Len(tasks')].phase = "sent"
               /\ SubmitIssues(tasks'[Len(tasks')].req, "turmas", tm.editingTurma)
       /\ AtividadeHandleSubmit
            => /\ tasks' = Append(tasks, tasks'[Len(tasks')])
               /\ tasks'[Len(tasks')].phase = "sent"
               /\ SubmitIssues(tasks'[Len(tasks')].req, "atividades", am.editingAtividade)
       /\ tm'.editingTurma # tm.editingTurma
            => \/ tm'.editingTurma = <<>>
               \/ \E k \in 1..Len(tm.turmas) :
                     StartEditTurma(k) /\ tm'.editingTurma = <<tm.turmas[k]>>
       /\ am'.editingAtividade # am.editingAtividade
            => \/ am'.editingAtividade = <<>>
               \/ \E k \in 1..Len(am.atividades) :
                     StartEditAtividade(k)
                     /\ am'.editingAtividade = <<am.atividades[k]>>]_vars

\* an edit of a class has just been submitted: its update, addressed to the row
\* being edited, is on its way
C21_Witness ==
    /\ TurmasShown /\ tm.isDialogOpen /\ tm.editingTurma # <<>>
    /\ Len(tasks) = 1
    /\ tasks[1].op = "turmaSubmit" /\ tasks[1].phase = "sent"
    /\ tasks[1].req.verb = "update" /\ tasks[1].req.id = tm.editingTurma[1].id

\* the handler invocations whose request is on its way to the store
Outstanding == {i \in 1..Len(tasks) : tasks[i].phase = "sent"}

\* C22 as stated, for the user who waits for every answer (every running
\* handler then belongs to the one action started last): at most one request
\* started on behalf of a submit or a confirmed delete is outstanding.
C22_OneOutstandingPerAction ==
    Cardinality({i \in Outstanding : tasks[i].hist.verb # "none"}) <= 1

\* C22, amended: for the user who waits for every answer, the action started
\* last has at most two requests outstanding and never two of the same handler:
\* the request of a submit or delete is outstanding alone, and two requests
\* outstanding together are those of loadStats and of one load (the manager's
\* load after a successful mutation, loadProfile when the Dashboard mounts).
C22_OneOutstandingPerHandler ==
    /\ Cardinality(Outstanding) <= 2
    /\ \A i, j \in Outstanding :
          i # j => /\ tasks[i].op # tasks[j].op
                   /\ "loadStats" \in {tasks[i].op, tasks[j].op}
                   /\ tasks[i].op \notin MutationOps

\* the update of a class has succeeded and both the manager's load and the
\* Dashboard's loadStats started for it are awaiting their first answer
C22_Witness ==
    /\ Cardinality(Outstanding) = 2
    /\ \A i \in Outstanding : tasks[i].hist.verb = "update" /\ tasks[i].step = 1
    /\ {tasks[i].op : i \in Outstanding} = {"loadTurmas", "loadStats"}

\* a mounted manager receives the rows of a load that succeeded
RowsReceived(i) == ~tasks[i].orphan /\ ~tasks[i].res.error

\* C23: the list a manager displays is the row sequence of the load response it
\* received last: every successful response of a load replaces the list with
\* the rows it carries, whether or not a load started later has been answered
\* already, and between two such responses the list changes only when the
\* manager is mounted anew.  So once two overlapping loads have both succeeded,
\* the list is that of the response received last, whatever the order of issue.
C23_LastResponseWins ==
    [][/\ \A i \in 1..Len(tasks) :
            /\ (LoadTurmasResolved(i) /\ RowsReceived(i))
                  => tm'.turmas = tasks[i].res.data
            /\ (LoadDataAtividadesResolved(i) /\ RowsReceived(i))
                  => am'.atividades = tasks[i].res.data
       /\ tm'.turmas # tm.turmas
            => \/ \E i \in 1..Len(tasks) : LoadTurmasResolved(i) /\ RowsReceived(i)
               \/ \E tab \in {"overview", "turmas", "atividades"} : SetActiveTab(tab)
       /\ am'.atividades # am.atividades
            => \/ \E i \in 1..Len(tasks) :
                     LoadDataAtividadesResolved(i) /\ RowsReceived(i)
               \/ \E tab \in {"overview", "turmas", "atividades"} : SetActiveTab(tab)]_vars

\* a class was created and, before the answer, the older class deleted; each
\* success started a load and both loads succeeded.  The response of the load
\* issued first (rows read between the insert and the delete) was received
\* last: its two rows are on display although the store holds one
C23_Witness ==
    /\ TurmasShown
    /\ \A i \in 1..Len(tasks) : tasks[i].op \notin MutationOps \cup {"loadTurmas"}
    /\ Len(tm.turmas) = 2
    /\ Cardinality({t \in db.turmas : t.teacher_id = "A"}) = 1

\* C24: when a request of a manager that has been unmounted meanwhile (the user
\* changed tab) is answered and its handler continues, the result is discarded:
\* no component state changes, no toast is raised and no loadStats is started.
C24_UnmountedResultDiscarded ==
    [][\A i \in 1..Len(tasks) :
        (tasks[i].orphan /\ AnswerHandled(i))
            => /\ tm' = tm /\ am' = am /\ dash' = dash
               /\ ev'.toast = "none"
               /\ CountOp(tasks', "loadStats") = CountOp(tasks, "loadStats")]_vars

\* the dialog now open cannot be the one task i was submitted from: the submit
\* was an insert and a row is being edited, or it was an update and none is.
\* (Only startEdit, on a closed dialog, sets the editing row, and only
\* resetForm, which closes the dialog, clears it.)
LaterDialog(req, open, editing) == open /\ ((req.verb = "insert") # (editing = <<>>))

\* C25: the success response of a submit never closes or clears a dialog that
\* the user opened after issuing that submit.  Checked on the later dialogs that
\* can be told apart from the submit's own by their mode (create or edit).
C25_LaterDialogLeftAlone ==
    [][\A i \in 1..Len(tasks) :
        /\ (/\ TurmaSubmitResolved(i) /\ RowsReceived(i)
            /\ LaterDialog(tasks[i].req, tm.isDialogOpen, tm.editingTurma))
              => /\ tm'.isDialogOpen
                 /\ tm'.formData = tm.formData
                 /\ tm'.editingTurma = tm.editingTurma
        /\ (/\ AtividadeSubmitResolved(i) /\ RowsReceived(i)
            /\ LaterDialog(tasks[i].req, am.isDialogOpen, am.editingAtividade))
              => /\ am'.isDialogOpen
                 /\ am'.formData = am.formData
                 /\ am'.editingAtividade = am.editingAtividade]_vars

\* C26: in every state of the Dashboard the number of pending assignments on
\* display is at most the total number of assignments on display.
C26_PendingAtMostTotal ==
    dash.stats.atividadesPendentes <= dash.stats.totalAtividades

====
